---- MODULE Spec2Model ----
(***************************************************************************)
(* Model of the guarded core of src/1000+line.py: the users/broadcasts     *)
(* tables of class DB, the Flood limiter, guard(), the admin commands and  *)
(* the broadcast loop of broadcast_cmd.                                    *)
(*                                                                         *)
(* The handlers are coroutines of one asyncio event loop: code between two *)
(* awaits is atomic, and another handler may run at an await.  Every       *)
(* handler but broadcast_cmd changes state only before its first await, so *)
(* it is one action followed by handler_done, the sending of its replies;  *)
(* broadcast_cmd is one action per stretch between awaits.                 *)
(*                                                                         *)
(* Spec is the bot while the clock stands on one second; SpecClock adds    *)
(* the passing of time and the progress edits that depend on it; SpecFlood *)
(* is class Flood alone, under several windows and limits, on a clock      *)
(* finer than the whole seconds Flood.hit reads.                           *)
(***************************************************************************)
EXTENDS Integers, Sequences, FiniteSets, TLC

(* ------------------------------ bounds -------------------------------- *)
MaxTime == 2          \* int(time.time()) runs over 0..MaxTime
MaxHits == 8          \* longest flood list a guard call may leave behind
MaxBroadcasts == 1    \* rows the broadcasts table may hold

(* --------------------------- program constants ------------------------ *)
WINDOW == 8           \* Flood.window, the default FLOOD is built with
LIMIT == 7            \* Flood.limit, the default FLOOD is built with

(* ------------------------------ inputs -------------------------------- *)
Ids == {1, 2}                         \* Telegram user ids that interact
NoUser == 0                           \* update.effective_user is None
Callers == Ids \cup {NoUser}
OwnerChoices == {0, 1}                \* values of the OWNER_ID setting
NULL == "<NULL>"                      \* SQL NULL / Python None
FirstNames == {"A"}                   \* u.first_name of an interacting user
Usernames == {"a"}                    \* u.username of an interacting user

W == <<"h", "i">>                     \* one word of a message, as characters
X == <<"!">>
\* context.args of /broadcast: the words after the command
BroadcastArgs == {<< >>, <<W, X>>}
\* context.args of /ban and /unban
BanArgs == {<< >>, <<"x">>, <<"1">>, <<"2">>, <<"2", "spam">>}
UnbanArgs == {<< >>, <<"x">>, <<"1">>, <<"2">>}

VARIABLES
    OWNER_ID,     \* the configured operator id, fixed at start-up
    now,          \* the clock, in whole seconds
    users,        \* table users: user_id -> row
    broadcasts,   \* table broadcasts: id -> row (ids 1..Len)
    FLOOD,        \* the window and limit of the Flood instance
    bucket,       \* FLOOD.bucket: uid -> list of timestamps
    hits,         \* per uid, the Flood.hit calls made on their own: time, result
    runs,         \* broadcast_cmd coroutines: broadcast id -> locals
    last          \* what the latest handler invocation did

vars == <<OWNER_ID, now, users, broadcasts, FLOOD, bucket, hits, runs, last>>

(* --------------------------- string helpers --------------------------- *)
\* " ".join(words), on lists of characters
RECURSIVE join(_)
join(words) ==
    IF words = << >> THEN << >>
    ELSE IF Len(words) = 1 THEN Head(words)
    ELSE Head(words) \o <<" ">> \o join(Tail(words))

RECURSIVE lstrip(_)
lstrip(s) == IF s # << >> /\ Head(s) = " " THEN lstrip(Tail(s)) ELSE s

RECURSIVE rstrip(_)
rstrip(s) ==
    IF s # << >> /\ s[Len(s)] = " " THEN rstrip(SubSeq(s, 1, Len(s) - 1)) ELSE s

\* str.strip()
strip(s) == rstrip(lstrip(s))

\* int(token): the number, or "ValueError"
int(tok) ==
    CASE tok = "1" -> 1
      [] tok = "2" -> 2
      [] tok = "3" -> 3
      [] OTHER -> "ValueError"

IsInt(tok) == tok \in {"1", "2", "3"}

(* ------------------------------- class DB ----------------------------- *)
\* DB.upsert_user as INSERT OR REPLACE
upsert_user_replace(tbl, user_id, first_name, username, ts) ==
    [u \in DOMAIN tbl \cup {user_id} |->
        IF u = user_id
        THEN [first_name |-> first_name, username |-> username,
              joined_at |-> ts, last_seen |-> ts,
              is_banned |-> 0, ban_reason |-> NULL]
        ELSE tbl[u]]

\* DB.upsert_user whose ON CONFLICT branch also clears the ban
upsert_user_unbans(tbl, user_id, first_name, username, ts) ==
    IF user_id \in DOMAIN tbl
    THEN [tbl EXCEPT ![user_id] =
            [@ EXCEPT !.first_name = first_name,
                      !.username = username,
                      !.last_seen = ts,
                      !.is_banned = 0,
                      !.ban_reason = NULL]]
    ELSE tbl @@ (user_id :>
            [first_name |-> first_name, username |-> username,
             joined_at |-> ts, last_seen |-> ts,
             is_banned |-> 0, ban_reason |-> NULL])

\* DB.upsert_user
upsert_user(tbl, user_id, first_name, username, ts) ==
    IF user_id \in DOMAIN tbl
    THEN [tbl EXCEPT ![user_id] =
            [@ EXCEPT !.first_name = first_name,
                      !.username = username,
                      !.last_seen = ts]]
    ELSE tbl @@ (user_id :>
            [first_name |-> first_name, username |-> username,
             joined_at |-> ts, last_seen |-> ts,
             is_banned |-> 0, ban_reason |-> NULL])

\* DB.set_last_seen that inserts the row it does not find
set_last_seen_inserts(tbl, user_id, ts) ==
    IF user_id \in DOMAIN tbl
    THEN [tbl EXCEPT ![user_id].last_seen = ts]
    ELSE tbl @@ (user_id :>
            [first_name |-> "", username |-> "",
             joined_at |-> ts, last_seen |-> ts,
             is_banned |-> 0, ban_reason |-> NULL])

\* DB.set_last_seen that also clears the ban of the row
set_last_seen_clears(tbl, user_id, ts) ==
    IF user_id \in DOMAIN tbl
    THEN [tbl EXCEPT ![user_id] =
            [@ EXCEPT !.last_seen = ts, !.is_banned = 0,
                      !.ban_reason = NULL]]
    ELSE tbl

\* DB.set_last_seen
set_last_seen(tbl, user_id, ts) ==
    IF user_id \in DOMAIN tbl
    THEN [tbl EXCEPT ![user_id].last_seen = ts]
    ELSE tbl

\* DB.is_banned that never reports the configured operator as banned
is_banned_spares_owner(tbl, user_id) ==
    IF user_id \in DOMAIN tbl /\ user_id # OWNER_ID
    THEN <<tbl[user_id].is_banned = 1, tbl[user_id].ban_reason>>
    ELSE <<FALSE, NULL>>

\* DB.is_banned: <<banned, reason>>
is_banned(tbl, user_id) ==
    IF user_id \notin DOMAIN tbl
    THEN <<FALSE, NULL>>
    ELSE <<tbl[user_id].is_banned = 1, tbl[user_id].ban_reason>>

\* DB.ban that sets joined_at on conflict too
ban_rejoins(tbl, user_id, reason, ts) ==
    IF user_id \in DOMAIN tbl
    THEN [tbl EXCEPT ![user_id] =
            [@ EXCEPT !.is_banned = 1, !.ban_reason = reason,
                      !.joined_at = ts]]
    ELSE tbl @@ (user_id :>
            [first_name |-> "", username |-> "",
             joined_at |-> ts, last_seen |-> ts,
             is_banned |-> 1, ban_reason |-> reason])

\* DB.ban that keeps the reason of a row already banned
ban_keeps_reason(tbl, user_id, reason, ts) ==
    IF user_id \in DOMAIN tbl
    THEN [tbl EXCEPT ![user_id] =
            [@ EXCEPT !.is_banned = 1,
                      !.ban_reason = IF @ = NULL THEN reason ELSE @]]
    ELSE tbl @@ (user_id :>
            [first_name |-> "", username |-> "",
             joined_at |-> ts, last_seen |-> ts,
             is_banned |-> 1, ban_reason |-> reason])

\* DB.ban
ban(tbl, user_id, reason, ts) ==
    IF user_id \in DOMAIN tbl
    THEN [tbl EXCEPT ![user_id] =
            [@ EXCEPT !.is_banned = 1, !.ban_reason = reason]]
    ELSE tbl @@ (user_id :>
            [first_name |-> "", username |-> "",
             joined_at |-> ts, last_seen |-> ts,
             is_banned |-> 1, ban_reason |-> reason])

\* DB.unban that leaves ban_reason
unban_flag_only(tbl, user_id) ==
    IF user_id \in DOMAIN tbl
    THEN [tbl EXCEPT ![user_id] = [@ EXCEPT !.is_banned = 0]]
    ELSE tbl

\* DB.unban as DELETE
unban_deletes(tbl, user_id) ==
    [u \in DOMAIN tbl \ {user_id} |-> tbl[u]]

\* DB.unban
unban(tbl, user_id) ==
    IF user_id \in DOMAIN tbl
    THEN [tbl EXCEPT ![user_id] =
            [@ EXCEPT !.is_banned = 0, !.ban_reason = NULL]]
    ELSE tbl

\* DB.stats that counts the rows not banned as users
stats_active(tbl) ==
    [users |-> Cardinality({u \in DOMAIN tbl : tbl[u].is_banned = 0}),
     banned |-> Cardinality({u \in DOMAIN tbl : tbl[u].is_banned = 1})]

\* DB.stats
stats(tbl) ==
    [users |-> Cardinality(DOMAIN tbl),
     banned |-> Cardinality({u \in DOMAIN tbl : tbl[u].is_banned = 1})]

\* the ids of a set in rowid order (user_id is the INTEGER PRIMARY KEY)
RECURSIVE ascending(_)
ascending(S) ==
    IF S = {} THEN << >>
    ELSE LET m == CHOOSE x \in S : \A y \in S : x <= y
         IN <<m>> \o ascending(S \ {m})

\* DB.user_ids_active
user_ids_active(tbl) ==
    ascending({u \in DOMAIN tbl : tbl[u].is_banned = 0})

\* DB.log_broadcast: the table with the new row; its id is the new length
log_broadcast(bc, admin_id, message, ts) ==
    Append(bc, [admin_id |-> admin_id, message |-> message,
                created_at |-> ts, sent_ok |-> 0, sent_fail |-> 0])

\* DB.update_broadcast_result
update_broadcast_result(bc, bid, ok, fail) ==
    IF bid \in DOMAIN bc
    THEN [bc EXCEPT ![bid] = [@ EXCEPT !.sent_ok = ok, !.sent_fail = fail]]
    ELSE bc

(* ------------------------------- utils -------------------------------- *)
\* is_admin without the comparison of ids
is_admin_anyone(uid) == uid # NoUser /\ OWNER_ID # 0

\* is_admin
is_admin(uid) == uid # NoUser /\ OWNER_ID # 0 /\ uid = OWNER_ID

(* ---------------------------- flood control --------------------------- *)
\* the list Flood.hit stores for uid
hit_list(bkt, uid, window, ts) ==
    Append(SelectSeq(bkt[uid], LAMBDA t : ts - t <= window), ts)

\* Flood.hit with >= for >
hit_ge(bkt, uid, window, limit, ts) ==
    LET lst == hit_list(bkt, uid, window, ts)
    IN [bucket |-> [bkt EXCEPT ![uid] = lst], over |-> Len(lst) >= limit]

\* Flood.hit that empties the bucket when it throttles
hit_clears(bkt, uid, window, limit, ts) ==
    LET lst == hit_list(bkt, uid, window, ts)
    IN [bucket |-> [bkt EXCEPT ![uid] =
                      IF Len(lst) > limit THEN << >> ELSE lst],
        over |-> Len(lst) > limit]

\* Flood.hit that keeps one entry per second: a call in a second that is
\* already in the list is not appended
hit_dedup(bkt, uid, window, limit, ts) ==
    LET kept == SelectSeq(bkt[uid], LAMBDA t : ts - t <= window)
        lst == IF \E k \in 1..Len(kept) : kept[k] = ts
               THEN kept ELSE Append(kept, ts)
    IN [bucket |-> [bkt EXCEPT ![uid] = lst], over |-> Len(lst) > limit]

\* Flood.hit that does not store the call it throttles
hit_unrecorded(bkt, uid, window, limit, ts) ==
    LET kept == SelectSeq(bkt[uid], LAMBDA t : ts - t <= window)
        lst == Append(kept, ts)
    IN [bucket |-> [bkt EXCEPT ![uid] =
                      IF Len(lst) > limit THEN kept ELSE lst],
        over |-> Len(lst) > limit]

\* Flood.hit: the new bucket and the returned flag
hit(bkt, uid, window, limit, ts) ==
    LET lst == hit_list(bkt, uid, window, ts)
    IN [bucket |-> [bkt EXCEPT ![uid] = lst], over |-> Len(lst) > limit]

(* -------------------------------- guard ------------------------------- *)
\* guard with the flood check ahead of the ban check
guard_flood_first(tbl, bkt, uid, first_name, username, ts) ==
    LET t1 == upsert_user(tbl, uid, first_name, username, ts)
        t2 == set_last_seen(t1, uid, ts)
        b == is_banned(t2, uid)
        h == hit(bkt, uid, FLOOD.window, FLOOD.limit, ts)
    IN IF ~is_admin(uid) /\ h.over
       THEN [users |-> t2, bucket |-> h.bucket, res |-> "Throttled",
             reason |-> NULL]
       ELSE [users |-> t2,
             bucket |-> IF is_admin(uid) THEN bkt ELSE h.bucket,
             res |-> IF b[1] THEN "Banned" ELSE "Allowed",
             reason |-> b[2]]

\* guard without the operator's exemption from the flood check
guard_no_exempt(tbl, bkt, uid, first_name, username, ts) ==
    LET t1 == upsert_user(tbl, uid, first_name, username, ts)
        t2 == set_last_seen(t1, uid, ts)
        b == is_banned(t2, uid)
        h == hit(bkt, uid, FLOOD.window, FLOOD.limit, ts)
    IN IF b[1]
       THEN [users |-> t2, bucket |-> bkt, res |-> "Banned", reason |-> b[2]]
       ELSE [users |-> t2, bucket |-> h.bucket,
             res |-> IF h.over THEN "Throttled" ELSE "Allowed",
             reason |-> NULL]

\* guard that lets the operator through ahead of the ban check
guard_admin_bypass(tbl, bkt, uid, first_name, username, ts) ==
    LET t1 == upsert_user(tbl, uid, first_name, username, ts)
        t2 == set_last_seen(t1, uid, ts)
        b == is_banned(t2, uid)
        h == hit(bkt, uid, FLOOD.window, FLOOD.limit, ts)
    IN IF is_admin(uid)
       THEN [users |-> t2, bucket |-> bkt, res |-> "Allowed",
             reason |-> NULL]
       ELSE IF b[1]
       THEN [users |-> t2, bucket |-> bkt, res |-> "Banned", reason |-> b[2]]
       ELSE [users |-> t2, bucket |-> h.bucket,
             res |-> IF h.over THEN "Throttled" ELSE "Allowed",
             reason |-> NULL]

\* guard(update) for the user uid: the tables after it and its outcome.
\* The handler goes on iff res = "Allowed" (guard returns True).
guard(tbl, bkt, uid, first_name, username, ts) ==
    LET t1 == upsert_user(tbl, uid, first_name, username, ts)
        t2 == set_last_seen(t1, uid, ts)
        b == is_banned(t2, uid)
    IN IF b[1]
       THEN [users |-> t2, bucket |-> bkt, res |-> "Banned", reason |-> b[2]]
       ELSE IF ~is_admin(uid)
            THEN LET h == hit(bkt, uid, FLOOD.window, FLOOD.limit, ts)
                 IN [users |-> t2, bucket |-> h.bucket,
                     res |-> IF h.over THEN "Throttled" ELSE "Allowed",
                     reason |-> NULL]
            ELSE [users |-> t2, bucket |-> bkt, res |-> "Allowed",
                  reason |-> NULL]

(* ------------------------------ handlers ------------------------------ *)
\* no handler is between its first statement and its return
Idle == [cmd |-> "none", uid |-> NoUser, args |-> << >>, res |-> "none",
         trace |-> << >>]

\* the record of a handler invocation: the command, the caller, its
\* context.args, how guard answered ("none" when guard was not reached) and
\* the calls the handler made, in order
Did(cmd, uid, args, res, trace) ==
    [cmd |-> cmd, uid |-> uid, args |-> args, res |-> res, trace |-> trace]

\* guard as called by a handler for the caller uid: `if not u: return True`
\* first, then the body of guard
call_guard(uid, first_name, username) ==
    IF uid = NoUser
    THEN [users |-> users, bucket |-> bucket, res |-> "Allowed",
          reason |-> NULL]
    ELSE guard(users, bucket, uid, first_name, username, now)

\* a guard call that keeps the flood lists within the model's bound
Bounded(g) == \A u \in Ids : Len(g.bucket[u]) <= MaxHits

\* start_cmd, help_cmd, info_cmd, ping_cmd, uptime_cmd, stats_cmd,
\* caption_cmd, hashtags_cmd, seo_cmd, text_msg: guard, then only replies
SimpleCmds == {"start", "help", "info", "ping", "uptime", "stats",
               "caption", "hashtags", "seo", "text"}

simple_cmd(cmd, uid, first_name, username) ==
    LET g == call_guard(uid, first_name, username)
    IN /\ last = Idle
       /\ Bounded(g)
       /\ users' = g.users
       /\ bucket' = g.bucket
       /\ last' = Did(cmd, uid, << >>, g.res,
                      IF g.res = "Allowed" THEN <<"guard", "reply">>
                      ELSE <<"guard">>)
       /\ UNCHANGED <<OWNER_ID, FLOOD, hits, now, broadcasts, runs>>

\* cb: q.answer() comes first; when it raises the handler ends there
cb(uid, first_name, username, answered) ==
    LET g == call_guard(uid, first_name, username)
    IN /\ last = Idle
       /\ IF ~answered
          THEN /\ last' = Did("cb", uid, << >>, "none", <<"answer">>)
               /\ UNCHANGED <<users, bucket>>
          ELSE /\ Bounded(g)
               /\ users' = g.users
               /\ bucket' = g.bucket
               /\ last' = Did("cb", uid, << >>, g.res,
                              IF g.res = "Allowed"
                              THEN <<"answer", "guard", "reply">>
                              ELSE <<"answer", "guard">>)
       /\ UNCHANGED <<OWNER_ID, FLOOD, hits, now, broadcasts, runs>>

\* the checks of ban_cmd and unban_cmd between guard and the table:
\* is_admin, `if not context.args`, int(context.args[0])
target_ok(uid, args) == is_admin(uid) /\ args # << >> /\ IsInt(args[1])

\* " ".join(context.args[1:]).strip() or "No reason", for one-word reasons
reason_of(args) == IF Len(args) > 1 THEN args[2] ELSE "No reason"

\* ban_cmd
ban_cmd(uid, first_name, username, args) ==
    LET g == call_guard(uid, first_name, username)
    IN /\ last = Idle
       /\ Bounded(g)
       /\ bucket' = g.bucket
       /\ IF g.res # "Allowed"
          THEN /\ users' = g.users
               /\ last' = Did("ban", uid, args, g.res, <<"guard">>)
          ELSE IF ~target_ok(uid, args)
          THEN /\ users' = g.users
               /\ last' = Did("ban", uid, args, g.res, <<"guard", "reply">>)
          ELSE /\ users' = ban(g.users, int(args[1]), reason_of(args), now)
               /\ last' = Did("ban", uid, args, g.res,
                              <<"guard", "ban", "reply", "send">>)
       /\ UNCHANGED <<OWNER_ID, FLOOD, hits, now, broadcasts, runs>>

\* unban_cmd
unban_cmd(uid, first_name, username, args) ==
    LET g == call_guard(uid, first_name, username)
    IN /\ last = Idle
       /\ Bounded(g)
       /\ bucket' = g.bucket
       /\ IF g.res # "Allowed"
          THEN /\ users' = g.users
               /\ last' = Did("unban", uid, args, g.res, <<"guard">>)
          ELSE IF ~target_ok(uid, args)
          THEN /\ users' = g.users
               /\ last' = Did("unban", uid, args, g.res, <<"guard", "reply">>)
          ELSE /\ users' = unban(g.users, int(args[1]))
               /\ last' = Did("unban", uid, args, g.res,
                              <<"guard", "unban", "reply", "send">>)
       /\ UNCHANGED <<OWNER_ID, FLOOD, hits, now, broadcasts, runs>>

\* the replies of a handler are sent and it returns; for broadcast_cmd, it
\* reaches the await of its "Broadcast started" reply
handler_done ==
    /\ last # Idle
    /\ last' = Idle
    /\ UNCHANGED <<OWNER_ID, FLOOD, hits, now, users, broadcasts, bucket, runs>>

(* ------------------------------ broadcast ----------------------------- *)
\* the locals of a broadcast_cmd coroutine that has logged its broadcast;
\* sent lists the send_message calls made so far, in order, and writes
\* counts its calls of update_broadcast_result
NewRun(uid, msg, user_ids) ==
    [pc |-> "status", uid |-> uid, msg |-> msg, user_ids |-> user_ids,
     i |-> 0, ok |-> 0, fail |-> 0, last_edit |-> 0, sent |-> << >>,
     writes |-> 0]

\* msg = " ".join(context.args).strip()
msg_of(args) == strip(join(args))

\* the rejections of broadcast_cmd without `if not msg`
rejected_list_only(msg, user_ids) == user_ids = << >>

\* the two rejections of broadcast_cmd: `if not msg`, `if not user_ids`
rejected(msg, user_ids) == msg = << >> \/ user_ids = << >>

\* broadcast_cmd up to its first await after guard.  build_app builds the
\* Application without concurrent_updates, so an update is dispatched when
\* the handler of the previous one has returned; the other handlers are
\* let run while a broadcast is suspended at an await, which only adds
\* behaviours, and a second broadcast starts when the running one has ended
broadcast_cmd(uid, first_name, username, args) ==
    LET g == call_guard(uid, first_name, username)
        msg == msg_of(args)
        user_ids == user_ids_active(g.users)
        bid == Len(broadcasts) + 1
    IN /\ last = Idle
       /\ Bounded(g)
       /\ users' = g.users
       /\ bucket' = g.bucket
       /\ IF g.res # "Allowed"
          THEN /\ last' = Did("broadcast", uid, args, g.res, <<"guard">>)
               /\ UNCHANGED <<broadcasts, runs>>
          ELSE IF ~is_admin(uid) \/ rejected(msg, user_ids)
          THEN /\ last' = Did("broadcast", uid, args, g.res,
                              <<"guard", "reply">>)
               /\ UNCHANGED <<broadcasts, runs>>
          ELSE /\ Len(broadcasts) < MaxBroadcasts
               /\ \A b \in DOMAIN runs : runs[b].pc \in {"done", "raised"}
               /\ broadcasts' = log_broadcast(broadcasts, uid, msg, now)
               /\ runs' = runs @@ (bid :> NewRun(uid, msg, user_ids))
               /\ last' = Did("broadcast", uid, args, g.res,
                              <<"guard", "log_broadcast">>)
       /\ UNCHANGED <<OWNER_ID, FLOOD, hits, now>>

\* the "Broadcast started" reply returns, or raises out of the handler
bc_status(bid, delivered) ==
    /\ last = Idle
    /\ bid \in DOMAIN runs
    /\ runs[bid].pc = "status"
    /\ runs' = [runs EXCEPT ![bid] =
                  IF delivered
                  THEN [@ EXCEPT !.pc = "send", !.i = 1, !.last_edit = now]
                  ELSE [@ EXCEPT !.pc = "raised"]]
    /\ UNCHANGED <<OWNER_ID, FLOOD, hits, now, users, broadcasts, bucket, last>>

\* the locals when a send_message that raised is not counted
counted_ok_only(r, delivered) ==
    [r EXCEPT !.ok = IF delivered THEN @ + 1 ELSE @,
              !.sent = Append(@, <<r.user_ids[r.i], delivered>>)]

\* the locals after send_message returned (delivered) or raised
counted(r, delivered) ==
    [r EXCEPT !.ok = IF delivered THEN @ + 1 ELSE @,
              !.fail = IF delivered THEN @ ELSE @ + 1,
              !.sent = Append(@, <<r.user_ids[r.i], delivered>>)]

\* one send_message of the loop, then the await of asleep
bc_send(bid, delivered) ==
    /\ last = Idle
    /\ bid \in DOMAIN runs
    /\ runs[bid].pc = "send"
    /\ runs' = [runs EXCEPT ![bid] =
                  [counted(@, delivered) EXCEPT !.pc = "sleep"]]
    /\ UNCHANGED <<OWNER_ID, FLOOD, hits, now, users, broadcasts, bucket, last>>

\* time.time() - last_edit > 2.5 on a clock of whole seconds: the two
\* readings differ from the real times by less than a second each
MayEdit(r) == now - r.last_edit >= 2
MustEdit(r) == now - r.last_edit >= 4

\* what follows an iteration: the next one, or the end of the loop with
\* update_broadcast_result and the await of the last edit_text
next_iteration(bid) ==
    LET r == runs[bid]
    IN IF r.i < Len(r.user_ids)
       THEN /\ runs' = [runs EXCEPT ![bid] =
                          [@ EXCEPT !.pc = "send", !.i = @ + 1]]
            /\ UNCHANGED broadcasts
       ELSE /\ runs' = [runs EXCEPT ![bid] =
                          [@ EXCEPT !.pc = "final", !.writes = @ + 1]]
            /\ broadcasts' =
                 update_broadcast_result(broadcasts, bid, r.ok, r.fail)

\* asleep returns and no progress edit is due
bc_sleep(bid) ==
    /\ last = Idle
    /\ bid \in DOMAIN runs
    /\ runs[bid].pc = "sleep"
    /\ ~MustEdit(runs[bid])
    /\ next_iteration(bid)
    /\ UNCHANGED <<OWNER_ID, FLOOD, hits, now, users, bucket, last>>

\* asleep returns and a progress edit is due: the await of edit_text
bc_progress(bid) ==
    /\ last = Idle
    /\ bid \in DOMAIN runs
    /\ runs[bid].pc = "sleep"
    /\ MayEdit(runs[bid])
    /\ runs' = [runs EXCEPT ![bid] =
                  [@ EXCEPT !.pc = "edit", !.last_edit = now]]
    /\ UNCHANGED <<OWNER_ID, FLOOD, hits, now, users, broadcasts, bucket, last>>

\* the progress edit returns or raises; either way the loop goes on
bc_edit(bid, delivered) ==
    /\ last = Idle
    /\ bid \in DOMAIN runs
    /\ runs[bid].pc = "edit"
    /\ next_iteration(bid)
    /\ UNCHANGED <<OWNER_ID, FLOOD, hits, now, users, bucket, last>>

\* the "Broadcast done" edit returns, or raises out of the handler
bc_final(bid, delivered) ==
    /\ last = Idle
    /\ bid \in DOMAIN runs
    /\ runs[bid].pc = "final"
    /\ runs' = [runs EXCEPT ![bid] =
                  [@ EXCEPT !.pc = IF delivered THEN "done" ELSE "raised"]]
    /\ UNCHANGED <<OWNER_ID, FLOOD, hits, now, users, broadcasts, bucket, last>>

(* ------------------------------- system ------------------------------- *)
\* a second passes
Tick ==
    /\ last = Idle
    /\ now < MaxTime
    /\ now' = now + 1
    /\ UNCHANGED <<OWNER_ID, FLOOD, hits, users, broadcasts, bucket, runs, last>>

\* a fresh database and a fresh process
Init ==
    /\ OWNER_ID \in OwnerChoices
    /\ now = 0
    /\ users = << >>
    /\ broadcasts = << >>
    /\ FLOOD = [window |-> WINDOW, limit |-> LIMIT]
    /\ hits = [u \in Ids |-> << >>]
    /\ bucket = [u \in Ids |-> << >>]
    /\ runs = << >>
    /\ last = Idle

\* the handlers and the broadcast loop
Next ==
    \/ \E c \in SimpleCmds, u \in Callers, f \in FirstNames, n \in Usernames :
          simple_cmd(c, u, f, n)
    \/ \E u \in Callers, f \in FirstNames, n \in Usernames, a \in BOOLEAN :
          cb(u, f, n, a)
    \/ \E u \in Callers, f \in FirstNames, n \in Usernames, a \in BanArgs :
          ban_cmd(u, f, n, a)
    \/ \E u \in Callers, f \in FirstNames, n \in Usernames, a \in UnbanArgs :
          unban_cmd(u, f, n, a)
    \/ \E u \in Callers, f \in FirstNames, n \in Usernames,
          a \in BroadcastArgs :
          broadcast_cmd(u, f, n, a)
    \/ handler_done
    \/ \E b \in DOMAIN runs, d \in BOOLEAN : bc_status(b, d)
    \/ \E b \in DOMAIN runs, d \in BOOLEAN : bc_send(b, d)
    \/ \E b \in DOMAIN runs : bc_sleep(b)
    \/ \E b \in DOMAIN runs, d \in BOOLEAN : bc_final(b, d)

Spec == Init /\ [][Next]_vars

\* a users table an earlier run of the bot left in the database file
StoredRow(first_name, banned) ==
    [first_name |-> first_name, username |-> "",
     joined_at |-> 0, last_seen |-> 0,
     is_banned |-> IF banned THEN 1 ELSE 0,
     ban_reason |-> IF banned THEN "No reason" ELSE NULL]

StoredTables ==
    {<< >>, 2 :> StoredRow("B", FALSE), 2 :> StoredRow("", TRUE)}

\* a fresh process on a database that may hold rows
InitClock ==
    /\ OWNER_ID \in OwnerChoices
    /\ now = 0
    /\ users \in StoredTables
    /\ broadcasts = << >>
    /\ FLOOD = [window |-> WINDOW, limit |-> LIMIT]
    /\ hits = [u \in Ids |-> << >>]
    /\ bucket = [u \in Ids |-> << >>]
    /\ runs = << >>
    /\ last = Idle

\* the callers of SpecClock
ClockCallers == {1}

\* broadcasts under a running clock: text messages, broadcast_cmd and the
\* broadcast loop with its progress edits
NextClock ==
    \/ Tick
    \/ \E u \in ClockCallers, f \in FirstNames, n \in Usernames :
          simple_cmd("text", u, f, n)
    \/ \E u \in ClockCallers, f \in FirstNames, n \in Usernames,
          a \in BroadcastArgs :
          broadcast_cmd(u, f, n, a)
    \/ handler_done
    \/ \E b \in DOMAIN runs, d \in BOOLEAN : bc_status(b, d)
    \/ \E b \in DOMAIN runs, d \in BOOLEAN : bc_send(b, d)
    \/ \E b \in DOMAIN runs : bc_sleep(b)
    \/ \E b \in DOMAIN runs : bc_progress(b)
    \/ \E b \in DOMAIN runs, d \in BOOLEAN : bc_edit(b, d)
    \/ \E b \in DOMAIN runs, d \in BOOLEAN : bc_final(b, d)

SpecClock == InitClock /\ [][NextClock]_vars

(* --------------------------- the limiter alone ------------------------ *)
MaxExtra == 2         \* Flood.hit calls id 1 makes beyond the limit, and
                      \* Flood.hit calls of another id
MaxFloodTime == 3     \* seconds the clock of SpecFlood runs
TicksPerSecond == 2   \* the clock of SpecFlood counts 1/TicksPerSecond s

\* int(time.time()) of a clock that counts ticks
seconds(t) == t \div TicksPerSecond

\* Flood instances: the bot's, and tighter ones
FloodConfigs ==
    {[window |-> WINDOW, limit |-> LIMIT], [window |-> 2, limit |-> 3],
     [window |-> 1, limit |-> 1], [window |-> 0, limit |-> 2]}

\* the ids that call a Flood instance: two ids where the limit is lowest
FloodCallers == IF FLOOD.limit > 1 THEN {1} ELSE Ids

InitFlood ==
    /\ OWNER_ID = 0
    /\ now = 0
    /\ users = << >>
    /\ broadcasts = << >>
    /\ FLOOD \in FloodConfigs
    /\ bucket = [u \in Ids |-> << >>]
    /\ hits = [u \in Ids |-> << >>]
    /\ runs = << >>
    /\ last = Idle

\* FLOOD.hit(uid) called at the current time; hits keeps the time in ticks
flood_hit(uid) ==
    LET h == hit(bucket, uid, FLOOD.window, FLOOD.limit, seconds(now))
    IN /\ Len(hits[uid]) < (IF uid = 1 THEN FLOOD.limit ELSE 0) + MaxExtra
       /\ bucket' = h.bucket
       /\ hits' = [hits EXCEPT ![uid] =
                     Append(@, [at |-> now, over |-> h.over])]
       /\ UNCHANGED <<OWNER_ID, FLOOD, now, users, broadcasts, runs, last>>

\* a tick passes
flood_tick ==
    /\ now < MaxFloodTime * TicksPerSecond
    /\ now' = now + 1
    /\ UNCHANGED <<OWNER_ID, FLOOD, users, broadcasts, bucket, hits, runs,
                   last>>

NextFlood ==
    \/ flood_tick
    \/ \E u \in FloodCallers : flood_hit(u)

SpecFlood == InitFlood /\ [][NextFlood]_vars

(* ----------------------------- class DB alone ------------------------- *)
\* the arguments of the calls on the users table
StoreNames == {"A", "B"}
StoreReasons == {"spam", "No reason"}

\* what the users table held of an id when a call was made: whether the
\* row was there and banned, and its ban_reason
Before(tbl, u) ==
    IF u \notin DOMAIN tbl THEN <<"absent", NULL>>
    ELSE <<IF tbl[u].is_banned = 1 THEN "banned" ELSE "active",
           tbl[u].ban_reason>>

\* a fresh process on a fresh database file
InitStore ==
    /\ OWNER_ID = 0
    /\ now = 0
    /\ users = << >>
    /\ broadcasts = << >>
    /\ FLOOD = [window |-> WINDOW, limit |-> LIMIT]
    /\ bucket = [u \in Ids |-> << >>]
    /\ hits = [u \in Ids |-> << >>]
    /\ runs = << >>
    /\ last = Idle

\* a method of db called on its own: last keeps the method, the id, the
\* other arguments (for is_banned, the returned pair) and Before
db_call(method, user_id, args, tbl) ==
    /\ last = Idle
    /\ users' = tbl
    /\ last' = Did(method, user_id, args, "none", Before(users, user_id))
    /\ UNCHANGED <<OWNER_ID, FLOOD, hits, now, broadcasts, bucket, runs>>

db_upsert_user(user_id, first_name, username) ==
    db_call("upsert_user", user_id, <<first_name, username>>,
            upsert_user(users, user_id, first_name, username, now))

db_set_last_seen(user_id) ==
    db_call("set_last_seen", user_id, << >>,
            set_last_seen(users, user_id, now))

db_is_banned(user_id) ==
    db_call("is_banned", user_id, is_banned(users, user_id), users)

db_ban(user_id, reason) ==
    db_call("ban", user_id, <<reason>>, ban(users, user_id, reason, now))

db_unban(user_id) ==
    db_call("unban", user_id, << >>, unban(users, user_id))

NextStore ==
    \/ Tick
    \/ \E u \in Ids, f \in StoreNames, n \in Usernames :
          db_upsert_user(u, f, n)
    \/ \E u \in Ids : db_set_last_seen(u)
    \/ \E u \in Ids : db_is_banned(u)
    \/ \E u \in Ids, r \in StoreReasons : db_ban(u, r)
    \/ \E u \in Ids : db_unban(u)
    \/ handler_done

SpecStore == InitStore /\ [][NextStore]_vars

(* ------------------- one user writing at a steady pace ---------------- *)
MaxPeriod == 2        \* longest time between two messages, in ticks
SteadyExtra == 3      \* messages the user sends beyond the limit

\* the user who writes, never the operator
SteadyCaller == 1

\* a fresh process, with or without a configured operator
InitSteady ==
    /\ OWNER_ID \in {0, 2}
    /\ now = 0
    /\ users = << >>
    /\ broadcasts = << >>
    /\ FLOOD \in FloodConfigs
    /\ bucket = [u \in Ids |-> << >>]
    /\ hits = [u \in Ids |-> << >>]
    /\ runs = << >>
    /\ last = Idle

\* the time between the first two messages of u, which u keeps to
Period(u) == hits[u][2].at - hits[u][1].at

\* the ticks since the last message of u
Since(u) == now - hits[u][Len(hits[u])].at

\* text_msg of u: guard at the current time, then at most a reply; hits
\* keeps the time in ticks and whether guard answered Throttled
steady_msg(u, first_name, username) ==
    LET g == guard(users, bucket, u, first_name, username, seconds(now))
    IN /\ Len(hits[u]) < FLOOD.limit + SteadyExtra
       /\ IF Len(hits[u]) < 2 THEN TRUE ELSE Since(u) = Period(u)
       /\ users' = g.users
       /\ bucket' = g.bucket
       /\ hits' = [hits EXCEPT ![u] =
                     Append(@, [at |-> now, over |-> g.res = "Throttled"])]
       /\ UNCHANGED <<OWNER_ID, FLOOD, now, broadcasts, runs, last>>

\* a tick passes while no message of the user is due
steady_tick ==
    /\ IF Len(hits[SteadyCaller]) = 0 THEN now < TicksPerSecond - 1
       ELSE IF Len(hits[SteadyCaller]) = 1
            THEN Since(SteadyCaller) < MaxPeriod
            ELSE Since(SteadyCaller) < Period(SteadyCaller)
    /\ now' = now + 1
    /\ UNCHANGED <<OWNER_ID, FLOOD, users, broadcasts, bucket, hits, runs,
                   last>>

NextSteady ==
    \/ steady_tick
    \/ \E f \in FirstNames, n \in Usernames : steady_msg(SteadyCaller, f, n)

SpecSteady == InitSteady /\ [][NextSteady]_vars

(* ======================= properties of the handlers ==================== *)
\* what DB.is_banned reports of a row, absent rows included
Status(tbl, u) ==
    IF u \in DOMAIN tbl THEN <<tbl[u].is_banned, tbl[u].ban_reason>>
    ELSE <<0, NULL>>

\* a step that leaves the ban flag and reason of every recipient alone
SameModeration == \A u \in Ids : Status(users', u) = Status(users, u)

\* a step that is a handler invocation, up to the handler's first await
HandlerStep == last = Idle /\ last' # Idle

\* the failed deliveries among the send_message calls of a broadcast
Failed(sent) == Cardinality({k \in 1..Len(sent) : ~sent[k][2]})

(* C1: a finalized BroadcastRecord holds sent_ok = N - K and sent_fail = K, *)
(* N the size of the recipient list captured at the start and K the number  *)
(* of failed delivery attempts, whichever recipients failed.                *)
C1_Accounting ==
    \A b \in DOMAIN runs :
        runs[b].writes > 0 =>
            LET N == Len(runs[b].user_ids)
                K == Failed(runs[b].sent)
            IN /\ broadcasts[b].sent_ok = N - K
               /\ broadcasts[b].sent_fail = K
               /\ broadcasts[b].sent_ok + broadcasts[b].sent_fail = N

\* a finalized broadcast to two recipients, the first delivery failed and
\* the second succeeded
C1_Witness ==
    \E b \in DOMAIN runs :
        /\ runs[b].writes > 0
        /\ Len(runs[b].user_ids) = 2
        /\ Len(runs[b].sent) = 2
        /\ ~runs[b].sent[1][2]
        /\ runs[b].sent[2][2]
        /\ broadcasts[b].sent_fail = 1

(* C2: once its BroadcastRecord is created a broadcast does not fail       *)
(* mid-way: no transport failure propagates out of broadcast_cmd, and the  *)
(* run ends only with every captured recipient attempted and the record    *)
(* finalized.                                                              *)
C2_RunsToCompletion ==
    \A b \in DOMAIN runs :
        /\ runs[b].pc # "raised"
        /\ runs[b].pc = "done" =>
              /\ runs[b].writes = 1
              /\ Len(runs[b].sent) = Len(runs[b].user_ids)

(* C3: a BroadcastRecord is created with both counts at zero before any    *)
(* delivery is attempted, its counts are written exactly once, at the      *)
(* completion of its run, its operator id, message, created_at and final   *)
(* counts never change afterwards, and no record is deleted.               *)
C3_Step ==
    /\ Len(broadcasts') >= Len(broadcasts)
    /\ \A b \in DOMAIN broadcasts' :
          IF b \notin DOMAIN broadcasts
          THEN /\ broadcasts'[b].sent_ok = 0
               /\ broadcasts'[b].sent_fail = 0
               /\ runs'[b].sent = << >>
          ELSE /\ broadcasts'[b].admin_id = broadcasts[b].admin_id
               /\ broadcasts'[b].message = broadcasts[b].message
               /\ broadcasts'[b].created_at = broadcasts[b].created_at
               /\ runs[b].writes > 0 => broadcasts'[b] = broadcasts[b]
               /\ broadcasts'[b] # broadcasts[b] =>
                     /\ runs[b].writes = 0
                     /\ runs'[b].writes = 1
                     /\ Len(runs'[b].sent) = Len(runs'[b].user_ids)
    /\ \A b \in DOMAIN runs' :
          /\ runs'[b].writes = 0 =>
                broadcasts'[b].sent_ok = 0 /\ broadcasts'[b].sent_fail = 0
          /\ runs'[b].pc \in {"done", "raised"} => runs'[b].writes = 1

C3_Lifecycle == [][C3_Step]_vars

\* C3 without "exactly once": the counts are written at most once, and
\* everything else the claim says
C3_StepAtMostOnce ==
    /\ Len(broadcasts') >= Len(broadcasts)
    /\ \A b \in DOMAIN broadcasts' :
          IF b \notin DOMAIN broadcasts
          THEN /\ broadcasts'[b].sent_ok = 0
               /\ broadcasts'[b].sent_fail = 0
               /\ runs'[b].sent = << >>
          ELSE /\ broadcasts'[b].admin_id = broadcasts[b].admin_id
               /\ broadcasts'[b].message = broadcasts[b].message
               /\ broadcasts'[b].created_at = broadcasts[b].created_at
               /\ runs[b].writes > 0 => broadcasts'[b] = broadcasts[b]
               /\ broadcasts'[b] # broadcasts[b] =>
                     /\ runs[b].writes = 0
                     /\ runs'[b].writes = 1
                     /\ Len(runs'[b].sent) = Len(runs'[b].user_ids)
    /\ \A b \in DOMAIN runs' :
          /\ runs'[b].writes = 0 =>
                broadcasts'[b].sent_ok = 0 /\ broadcasts'[b].sent_fail = 0
          /\ runs'[b].writes <= 1

C3_LifecycleAtMostOnce == [][C3_StepAtMostOnce]_vars

(* C4: broadcast_cmd creates no BroadcastRecord and starts no delivery     *)
(* when the message is empty or only whitespace, nor when no recipient is  *)
(* eligible; a rejected call leaves the broadcasts table and every ban     *)
(* flag and reason as they were.                                           *)
NoneEligible(tbl) == \A u \in DOMAIN tbl : tbl[u].is_banned # 0

Blank(msg) == \A k \in 1..Len(msg) : msg[k] = " "

C4_Step ==
    /\ (HandlerStep /\ last'.cmd = "broadcast"
          /\ (last'.args = << >> \/ NoneEligible(users'))) =>
          /\ broadcasts' = broadcasts
          /\ runs' = runs
          /\ SameModeration
    /\ \A b \in DOMAIN broadcasts' \ DOMAIN broadcasts :
          /\ ~Blank(broadcasts'[b].message)
          /\ runs'[b].user_ids # << >>
          /\ runs'[b].sent = << >>

C4_NoRecordOnRejection == [][C4_Step]_vars

\* the operator has sent /broadcast without a message, with a recipient
\* eligible, and was turned down
C4_Witness ==
    /\ last.cmd = "broadcast"
    /\ last.args = << >>
    /\ last.uid = OWNER_ID
    /\ last.res = "Allowed"
    /\ last.trace = <<"guard", "reply">>
    /\ ~NoneEligible(users)
    /\ broadcasts = << >>

(* C5: every entry point calls guard before it does or sends anything      *)
(* else, and when guard does not allow the interaction the handler sends   *)
(* nothing more and changes nothing that guard did not change.             *)
C5_Step ==
    HandlerStep =>
        /\ last'.trace[1] = "guard"
        /\ last'.res # "Allowed" =>
              /\ last'.trace = <<"guard">>
              /\ broadcasts' = broadcasts
              /\ runs' = runs
              /\ SameModeration

C5_GuardFirst == [][C5_Step]_vars

(* C6: guard called for an identity whose stored status is banned answers  *)
(* Banned and leaves that identity's flood window as it was, for operators *)
(* and others alike.                                                       *)
BannedCaller(u) ==
    /\ HandlerStep
    /\ last'.uid = u
    /\ last'.res # "none"
    /\ u \in DOMAIN users
    /\ users[u].is_banned = 1

C6_Step ==
    \A u \in Ids :
        BannedCaller(u) => last'.res = "Banned" /\ bucket' = bucket

C6_BannedSkipsFlood == [][C6_Step]_vars

\* a user who is not the operator was turned down as banned, with earlier
\* interactions still in the flood window
C6_Witness ==
    /\ last.res = "Banned"
    /\ last.uid \in Ids
    /\ last.uid # OWNER_ID
    /\ bucket[last.uid] # << >>

(* C7: the flood limiter is never consulted for the configured operator:   *)
(* guard records nothing in the operator's window and never answers        *)
(* Throttled to the operator.                                              *)
C7_OperatorExempt ==
    OWNER_ID # 0 =>
        /\ bucket[OWNER_ID] = << >>
        /\ ~(last.uid = OWNER_ID /\ last.res = "Throttled")

\* the operator has passed guard while another user is being throttled
C7_Witness ==
    /\ OWNER_ID # 0
    /\ last.uid = OWNER_ID
    /\ last.res = "Allowed"
    /\ \E u \in Ids : Len(bucket[u]) > LIMIT

(* C8: an operator whose own row is banned is turned down by guard as      *)
(* Banned like anybody else, and the command does nothing.                 *)
C8_Step ==
    (OWNER_ID # 0 /\ BannedCaller(OWNER_ID)) =>
        /\ last'.res = "Banned"
        /\ last'.trace \in {<<"guard">>, <<"answer", "guard">>}
        /\ SameModeration
        /\ broadcasts' = broadcasts
        /\ runs' = runs

C8_BannedOperatorRejected == [][C8_Step]_vars

\* the banned operator has tried to unban their own id and was turned down
C8_Witness ==
    /\ OWNER_ID # 0
    /\ last.uid = OWNER_ID
    /\ last.cmd = "unban"
    /\ last.args = <<"1">>
    /\ last.res = "Banned"
    /\ users[OWNER_ID].is_banned = 1

(* C9: only the configured operator, and nobody when OWNER_ID is 0, can    *)
(* change a ban flag or reason, create a BroadcastRecord or have a         *)
(* broadcast delivery attempted.                                           *)
C9_Step ==
    /\ (~SameModeration \/ Len(broadcasts') # Len(broadcasts)
          \/ DOMAIN runs' # DOMAIN runs) =>
          /\ OWNER_ID # 0
          /\ HandlerStep
          /\ last'.uid = OWNER_ID
          /\ last'.cmd \in {"ban", "unban", "broadcast"}
    /\ \A b \in DOMAIN runs' :
          /\ OWNER_ID # 0
          /\ runs'[b].uid = OWNER_ID
          /\ broadcasts'[b].admin_id = OWNER_ID

C9_OnlyOperator == [][C9_Step]_vars

\* with no operator configured, user 1 has sent /ban 2 past guard and
\* nothing was banned
C9_Witness ==
    /\ OWNER_ID = 0
    /\ last.cmd = "ban"
    /\ last.uid = 1
    /\ last.args = <<"2">>
    /\ last.res = "Allowed"
    /\ \A u \in DOMAIN users : users[u].is_banned = 0

(* C13: a guard call that follows a guard call of the same non-operator    *)
(* identity at the same clock value, no ban or unban between them, agrees  *)
(* with it: both are Banned or neither is; after Allowed comes Allowed, or *)
(* Throttled once more than `limit` calls lie in the window; after         *)
(* Throttled never comes Allowed.                                          *)
C13_Consecutive ==
    (last # Idle /\ last.res # "none" /\ last.uid # NoUser
        /\ ~is_admin(last.uid)) =>
        \A f \in FirstNames, n \in Usernames :
            LET g2 == guard(users, bucket, last.uid, f, n, now)
            IN /\ (last.res = "Banned") <=> (g2.res = "Banned")
               /\ last.res = "Allowed" => g2.res \in {"Allowed", "Throttled"}
               /\ (last.res = "Allowed" /\ g2.res = "Throttled") =>
                      Len(g2.bucket[last.uid]) > FLOOD.limit
               /\ (last.res = "Allowed" /\ g2.res = "Allowed") =>
                      Len(g2.bucket[last.uid]) <= FLOOD.limit
               /\ last.res = "Throttled" => g2.res = "Throttled"

\* a handler of identity 2 has just been let through, and the guard call
\* that follows at once is throttled
C13_Witness ==
    /\ last # Idle
    /\ last.uid = 2
    /\ ~is_admin(2)
    /\ last.res = "Allowed"
    /\ guard(users, bucket, 2, "A", "a", now).res = "Throttled"

(* ======================= properties of the limiter ===================== *)
(* C10: when one id calls Flood.hit again and again from an empty window,  *)
(* all calls within one window of the first, the first `limit` calls are   *)
(* not throttled and the call after them and every later one is.           *)
C10_FirstLimitPass ==
    \A u \in Ids :
        \A k \in 1..Len(hits[u]) :
            hits[u][k].at - hits[u][1].at <= FLOOD.window * TicksPerSecond =>
                (hits[u][k].over <=> k > FLOOD.limit)

\* window 8, limit 7: nine calls within the window of the first, the
\* seventh let through, the eighth and the ninth throttled
C10_Witness ==
    /\ FLOOD = [window |-> 8, limit |-> 7]
    /\ Len(hits[1]) = 9
    /\ hits[1][9].at - hits[1][1].at <= 8 * TicksPerSecond
    /\ hits[1][9].at > hits[1][1].at
    /\ ~hits[1][1].over
    /\ ~hits[1][7].over
    /\ hits[1][8].over
    /\ hits[1][9].over

(* C11: after an id has been throttled, a call it makes more than `window` *)
(* seconds after its previous call is not throttled, however many calls    *)
(* it made before the pause.                                               *)
C11_PauseClears ==
    \A u \in Ids :
        \A k \in 2..Len(hits[u]) :
            (/\ \E j \in 1..(k - 1) : hits[u][j].over
             /\ hits[u][k].at - hits[u][k - 1].at >
                    FLOOD.window * TicksPerSecond)
                => ~hits[u][k].over

\* C11 for a pause measured on the truncated timestamps Flood.hit stores:
\* more than `window` whole seconds between the two readings of the clock
C11_PauseClearsWholeSeconds ==
    \A u \in Ids :
        \A k \in 2..Len(hits[u]) :
            seconds(hits[u][k].at) - seconds(hits[u][k - 1].at) > FLOOD.window
                => ~hits[u][k].over

(* C12: in every reachable state, those reached by the clock advancing     *)
(* and by other ids calling included, the stored window of each id holds   *)
(* only timestamps within the last `window` seconds of the current time.   *)
C12_WindowFresh ==
    \A u \in Ids :
        \A i \in 1..Len(bucket[u]) :
            seconds(now) - bucket[u][i] <= FLOOD.window

\* C12 for the window of the calling id, right after its call
C12_StepFreshAfterHit ==
    \A u \in Ids :
        hits'[u] # hits[u] =>
            \A i \in 1..Len(bucket'[u]) :
                seconds(now') - bucket'[u][i] <= FLOOD.window

C12_FreshAfterHit == [][C12_StepFreshAfterHit]_vars

(* ===================== properties of the users table =================== *)
\* a step that is a call of a method of db
StoreStep == last = Idle /\ last' # Idle

(* C14: every recipient with a non-null ban_reason has is_banned = 1, in    *)
(* every state any sequence of upsert_user, set_last_seen, ban and unban    *)
(* reaches, and unban clears is_banned and ban_reason together.             *)
C14_Step ==
    /\ \A u \in DOMAIN users' :
          users'[u].ban_reason # NULL => users'[u].is_banned = 1
    /\ (StoreStep /\ last'.cmd = "unban" /\ last'.uid \in DOMAIN users') =>
          /\ users'[last'.uid].is_banned = 0
          /\ users'[last'.uid].ban_reason = NULL

C14_ReasonOnlyWhenBanned == [][C14_Step]_vars

\* unban of a recipient banned for "spam" has just cleared flag and reason
C14_Witness ==
    /\ last.cmd = "unban"
    /\ last.trace = <<"banned", "spam">>
    /\ users[last.uid].is_banned = 0
    /\ users[last.uid].ban_reason = NULL

(* C15: with a clock that never runs backwards, joined_at <= last_seen for  *)
(* every recipient in every reachable state, after any interleaving of      *)
(* upsert_user, set_last_seen, ban (of an unknown id too) and unban.        *)
C15_JoinedBeforeSeen ==
    \A u \in DOMAIN users : users[u].joined_at <= users[u].last_seen

\* a row that ban created for an unknown id, seen again at a later second
C15_Witness ==
    /\ last.cmd = "set_last_seen"
    /\ last.uid \in DOMAIN users
    /\ users[last.uid].first_name = ""
    /\ users[last.uid].is_banned = 1
    /\ users[last.uid].joined_at < users[last.uid].last_seen

(* C16: upsert_user of an id that exists overwrites only first_name,        *)
(* username and last_seen, leaving joined_at, is_banned and ban_reason of   *)
(* the row and every other row as they were; upsert_user of an absent id    *)
(* creates the row with joined_at = last_seen = now, not banned.            *)
C16_Step ==
    (StoreStep /\ last'.cmd = "upsert_user") =>
        LET u == last'.uid
            f == last'.args[1]
            n == last'.args[2]
        IN /\ DOMAIN users' = DOMAIN users \cup {u}
           /\ \A v \in DOMAIN users \ {u} : users'[v] = users[v]
           /\ users'[u].first_name = f
           /\ users'[u].username = n
           /\ users'[u].last_seen = now
           /\ IF u \in DOMAIN users
              THEN /\ users'[u].joined_at = users[u].joined_at
                   /\ users'[u].is_banned = users[u].is_banned
                   /\ users'[u].ban_reason = users[u].ban_reason
              ELSE /\ users'[u].joined_at = now
                   /\ users'[u].is_banned = 0
                   /\ users'[u].ban_reason = NULL

C16_UpsertOverwrites == [][C16_Step]_vars

\* upsert_user of a banned recipient that joined earlier: the new name is
\* stored and the ban is still there
C16_Witness ==
    /\ last.cmd = "upsert_user"
    /\ last.trace[1] = "banned"
    /\ users[last.uid].first_name = "B"
    /\ users[last.uid].is_banned = 1
    /\ users[last.uid].ban_reason = last.trace[2]
    /\ users[last.uid].joined_at < users[last.uid].last_seen

(* C17: a recipient row, once there, is never removed and its joined_at     *)
(* never changes; ban of an unknown id creates the row, banned with the     *)
(* given reason, and a later unban clears the ban and keeps the row and     *)
(* its joined_at.                                                           *)
C17_Step ==
    /\ DOMAIN users \subseteq DOMAIN users'
    /\ \A u \in DOMAIN users : users'[u].joined_at = users[u].joined_at
    /\ (StoreStep /\ last'.cmd = "ban" /\ last'.uid \notin DOMAIN users) =>
          /\ last'.uid \in DOMAIN users'
          /\ users'[last'.uid].is_banned = 1
          /\ users'[last'.uid].ban_reason = last'.args[1]
    /\ (StoreStep /\ last'.cmd = "unban" /\ last'.uid \in DOMAIN users) =>
          /\ last'.uid \in DOMAIN users'
          /\ users'[last'.uid].is_banned = 0

C17_RowsStay == [][C17_Step]_vars

\* unban of a row that ban created at an earlier second: the row is there,
\* not banned, with the joined_at of its creation
C17_Witness ==
    /\ last.cmd = "unban"
    /\ last.trace[1] = "banned"
    /\ last.uid \in DOMAIN users
    /\ users[last.uid].first_name = ""
    /\ users[last.uid].is_banned = 0
    /\ users[last.uid].joined_at < now

(* C18: after ban(id, reason) the recipient is banned with that reason,     *)
(* whether it was absent, not banned or banned for another reason; an       *)
(* absent recipient is created with empty names, and a present one keeps    *)
(* its first_name, username, joined_at and last_seen.                       *)
C18_Step ==
    (StoreStep /\ last'.cmd = "ban") =>
        LET u == last'.uid
        IN /\ u \in DOMAIN users'
           /\ users'[u].is_banned = 1
           /\ users'[u].ban_reason = last'.args[1]
           /\ IF u \in DOMAIN users
              THEN /\ users'[u].first_name = users[u].first_name
                   /\ users'[u].username = users[u].username
                   /\ users'[u].joined_at = users[u].joined_at
                   /\ users'[u].last_seen = users[u].last_seen
              ELSE /\ users'[u].first_name = ""
                   /\ users'[u].username = ""

C18_BanSets == [][C18_Step]_vars

\* ban of a named recipient already banned for "spam", for another reason
C18_Witness ==
    /\ last.cmd = "ban"
    /\ last.trace = <<"banned", "spam">>
    /\ last.args = <<"No reason">>
    /\ users[last.uid].first_name = "A"
    /\ users[last.uid].is_banned = 1
    /\ users[last.uid].ban_reason = "No reason"

(* C19: on an unknown id is_banned returns (False, None), and unban and     *)
(* set_last_seen leave the whole users table as it was: no row is created.  *)
C19_Step ==
    (StoreStep /\ last'.trace[1] = "absent") =>
        /\ last'.cmd \in {"is_banned", "unban", "set_last_seen"} =>
              users' = users
        /\ last'.cmd = "is_banned" => last'.args = <<FALSE, NULL>>

C19_UnknownId == [][C19_Step]_vars

\* set_last_seen of an unknown id on a table that holds another recipient
C19_Witness ==
    /\ last.cmd = "set_last_seen"
    /\ last.trace[1] = "absent"
    /\ last.uid \notin DOMAIN users
    /\ users # << >>

(* C20: in every reachable state stats counts as users the distinct ids     *)
(* ever given to upsert_user or ban (unban of an unknown id adds none), as  *)
(* banned the recipients with is_banned = 1, and banned <= users.           *)
C20_Step ==
    LET added == IF StoreStep /\ last'.cmd \in {"upsert_user", "ban"}
                 THEN {last'.uid} ELSE {}
    IN /\ DOMAIN users' = DOMAIN users \cup added
       /\ stats(users').users = Cardinality(DOMAIN users \cup added)
       /\ stats(users').banned =
              Cardinality({u \in DOMAIN users' : users'[u].is_banned = 1})
       /\ stats(users').banned <= stats(users').users

C20_Counts == [][C20_Step]_vars

\* unban of an unknown id while the one recipient of the table is banned
C20_Witness ==
    /\ last.cmd = "unban"
    /\ last.trace[1] = "absent"
    /\ stats(users) = [users |-> 1, banned |-> 1]

(* ==================== properties of the broadcast loop ================= *)
\* the recipients a run has called send_message for, as a set, and the
\* recipients it captured
Attempted(r) == {r.sent[k][1] : k \in 1..Len(r.sent)}
Captured(r) == {r.user_ids[k] : k \in 1..Len(r.user_ids)}

\* a run that has left broadcast_cmd, by its last line or by an exception
Ended(r) == r.pc \in {"done", "raised"}

\* the send_message calls of a run so far went to the first recipients of
\* the captured list, in its order, one call each
InOrder(r) ==
    /\ Len(r.sent) <= Len(r.user_ids)
    /\ \A k \in 1..Len(r.sent) : r.sent[k][1] = r.user_ids[k]

(* C21: within one broadcast, delivery is attempted to each recipient of   *)
(* the captured list exactly once, in the order of the list, one at a      *)
(* time; a failed recipient is not attempted again and a failure neither   *)
(* skips nor reorders a later recipient.                                   *)
C21_EachOnceInOrder ==
    \A b \in DOMAIN runs :
        /\ InOrder(runs[b])
        /\ Ended(runs[b]) => Len(runs[b].sent) = Len(runs[b].user_ids)

\* C21 for the runs whose "Broadcast started" reply did not raise
C21_EachOnceInOrderOnceStarted ==
    \A b \in DOMAIN runs :
        /\ InOrder(runs[b])
        /\ runs[b].pc \in {"final", "done"} \/ runs[b].writes > 0 =>
              Len(runs[b].sent) = Len(runs[b].user_ids)

(* C22: the recipients a broadcast delivers to are exactly the recipients  *)
(* that were not banned when user_ids_active was called: a ban, an unban   *)
(* or a first upsert by another interaction while the broadcast is         *)
(* suspended neither removes a recipient from the run nor adds one, and no *)
(* recipient banned at that moment is ever attempted.                      *)
C22_Step ==
    /\ \A b \in DOMAIN runs' \ DOMAIN runs :
          Captured(runs'[b]) =
              {u \in DOMAIN users' : users'[u].is_banned = 0}
    /\ \A b \in DOMAIN runs : runs'[b].user_ids = runs[b].user_ids
    /\ \A b \in DOMAIN runs' :
          /\ Attempted(runs'[b]) \subseteq Captured(runs'[b])
          /\ Ended(runs'[b]) => Attempted(runs'[b]) = Captured(runs'[b])

C22_Snapshot == [][C22_Step]_vars

\* C22 for the runs whose "Broadcast started" reply did not raise
C22_StepOnceStarted ==
    /\ \A b \in DOMAIN runs' \ DOMAIN runs :
          Captured(runs'[b]) =
              {u \in DOMAIN users' : users'[u].is_banned = 0}
    /\ \A b \in DOMAIN runs : runs'[b].user_ids = runs[b].user_ids
    /\ \A b \in DOMAIN runs' :
          /\ Attempted(runs'[b]) \subseteq Captured(runs'[b])
          /\ runs'[b].writes > 0 => Attempted(runs'[b]) = Captured(runs'[b])

C22_SnapshotOnceStarted == [][C22_StepOnceStarted]_vars

\* a finished run delivered to a recipient who was banned while it ran, and
\* not to one who was unbanned meanwhile
C22_MutatedMeanwhile ==
    \E b \in DOMAIN runs :
        /\ runs[b].writes > 0
        /\ \E u \in Attempted(runs[b]) : users[u].is_banned = 1
        /\ Attempted(runs[b]) = Captured(runs[b])

(* C27: guard upserts the caller before broadcast_cmd lists the eligible   *)
(* recipients, so the operator's own id is in the list whenever the        *)
(* listing is reached; the "No users found." rejection is unreachable and  *)
(* every broadcast that creates a record attempts a delivery to the        *)
(* operator.                                                               *)
ReachesListing ==
    /\ HandlerStep
    /\ last'.cmd = "broadcast"
    /\ last'.res = "Allowed"
    /\ is_admin(last'.uid)
    /\ msg_of(last'.args) # << >>

C27_Step ==
    /\ ReachesListing =>
          /\ last'.uid \in {u \in DOMAIN users' : users'[u].is_banned = 0}
          /\ user_ids_active(users') # << >>
          /\ last'.trace = <<"guard", "log_broadcast">>
    /\ \A b \in DOMAIN runs' :
          /\ runs'[b].uid \in Captured(runs'[b])
          /\ Ended(runs'[b]) => runs'[b].uid \in Attempted(runs'[b])

C27_OperatorListed == [][C27_Step]_vars

\* C27 for the runs whose "Broadcast started" reply did not raise
C27_StepOnceStarted ==
    /\ ReachesListing =>
          /\ last'.uid \in {u \in DOMAIN users' : users'[u].is_banned = 0}
          /\ user_ids_active(users') # << >>
          /\ last'.trace = <<"guard", "log_broadcast">>
    /\ \A b \in DOMAIN runs' :
          /\ runs'[b].uid \in Captured(runs'[b])
          /\ runs'[b].writes > 0 => runs'[b].uid \in Attempted(runs'[b])

C27_OperatorListedOnceStarted == [][C27_StepOnceStarted]_vars

(* ==================== writes to one row, in either order =============== *)
\* the columns of a row that upsert_user and ban decide between them
Outcome(row) ==
    <<row.is_banned, row.ban_reason, row.first_name, row.username>>

(* C23: the writes of the store for one id are applied one after the       *)
(* other: an upsert_user and a ban of the same id, in either order, end in *)
(* the same row (is_banned true, ban_reason the ban's reason, names the    *)
(* upsert's), and a write for one id leaves the rows of the other ids as   *)
(* they were.                                                              *)
C23_Step ==
    /\ \A u \in Ids, f \in StoreNames, n \in Usernames, r \in StoreReasons,
          t \in {now, now + 1} :
          LET upsert_ban == ban(upsert_user(users, u, f, n, now), u, r, t)
              ban_upsert == upsert_user(ban(users, u, r, now), u, f, n, t)
          IN /\ Outcome(upsert_ban[u]) = <<1, r, f, n>>
             /\ Outcome(ban_upsert[u]) = <<1, r, f, n>>
             /\ upsert_ban[u].joined_at = ban_upsert[u].joined_at
             /\ \A v \in Ids \ {u} :
                   /\ (v \in DOMAIN upsert_ban) = (v \in DOMAIN users)
                   /\ (v \in DOMAIN ban_upsert) = (v \in DOMAIN users)
                   /\ v \in DOMAIN users =>
                         upsert_ban[v] = users[v] /\ ban_upsert[v] = users[v]
    /\ StoreStep =>
          /\ \A v \in Ids \ {last'.uid} :
                /\ (v \in DOMAIN users') = (v \in DOMAIN users)
                /\ v \in DOMAIN users => users'[v] = users[v]
          /\ (last'.cmd = "upsert_user" /\ last'.trace[1] = "banned") =>
                Outcome(users'[last'.uid]) =
                    <<1, last'.trace[2], last'.args[1], last'.args[2]>>
          /\ (last'.cmd = "ban" /\ last'.trace[1] # "absent") =>
                Outcome(users'[last'.uid]) =
                    <<1, last'.args[1], users[last'.uid].first_name,
                      users[last'.uid].username>>

C23_EitherOrder == [][C23_Step]_vars

\* a recipient banned for "spam" has just been upserted under a new name
\* and is still banned for "spam", next to the row of another recipient
C23_Witness ==
    /\ last.cmd = "upsert_user"
    /\ last.trace = <<"banned", "spam">>
    /\ last.args = <<"B", "a">>
    /\ Outcome(users[last.uid]) = <<1, "spam", "B", "a">>
    /\ \E v \in DOMAIN users : v # last.uid /\ users[v].is_banned = 0

(* ==================== one bucket per id ================================ *)
\* the seconds Flood.hit read at the calls of u
Readings(u) == [k \in 1..Len(hits[u]) |-> seconds(hits[u][k].at)]

(* C24: the updates of Flood for one id are applied one after the other:   *)
(* after k calls of an id inside one window its stored list has exactly k  *)
(* entries, no call is lost, and a call of one id leaves the list of every *)
(* other id as it was.                                                     *)
C24_Step ==
    /\ \A u \in Ids :
          (/\ hits'[u] # << >>
           /\ hits'[u][Len(hits'[u])].at - hits'[u][1].at
                 <= FLOOD.window * TicksPerSecond) =>
              /\ Len(bucket'[u]) = Len(hits'[u])
              /\ bucket'[u] = Readings(u)'
    /\ \A u \in Ids :
          hits'[u] # hits[u] =>
              \A v \in Ids \ {u} :
                  bucket'[v] = bucket[v] /\ hits'[v] = hits[v]

C24_NoLostUpdate == [][C24_Step]_vars

\* window 1: three calls of id 1 inside one window, two calls of id 2 in
\* between, and both lists complete
C24_Witness ==
    /\ FLOOD = [window |-> 1, limit |-> 1]
    /\ Len(hits[1]) = 3
    /\ Len(hits[2]) = 2
    /\ hits[1][3].at - hits[1][1].at <= TicksPerSecond
    /\ hits[1][1].at <= hits[2][1].at
    /\ hits[2][2].at <= hits[1][3].at
    /\ Len(bucket[1]) = 3
    /\ Len(bucket[2]) = 2

(* ==================== a ban lasts until the unban ====================== *)
\* the step is the operator's /unban of u reaching DB.unban
UnbanOf(u) ==
    /\ HandlerStep
    /\ last'.cmd = "unban"
    /\ is_admin(last'.uid)
    /\ last'.res = "Allowed"
    /\ last'.trace = <<"guard", "unban", "reply", "send">>
    /\ int(last'.args[1]) = u

(* C25: once a recipient is banned, every guard call for that id answers   *)
(* Banned with the stored reason and the interaction does nothing more,    *)
(* until an unban of that id; the upsert_user and set_last_seen that guard *)
(* runs first never clear or change the ban.                               *)
C25_Step ==
    \A u \in Ids :
        /\ (u \in DOMAIN users /\ users[u].is_banned = 1) =>
              /\ \A f \in FirstNames, n \in Usernames :
                    LET g == guard(users, bucket, u, f, n, now)
                    IN /\ g.res = "Banned"
                       /\ g.reason = users[u].ban_reason
                       /\ Status(g.users, u) = Status(users, u)
                       /\ g.bucket = bucket
              /\ (u \notin DOMAIN users' \/ users'[u].is_banned = 0) =>
                    UnbanOf(u)
        /\ BannedCaller(u) =>
              /\ last'.res = "Banned"
              /\ last'.trace[Len(last'.trace)] = "guard"
              /\ SameModeration
              /\ DOMAIN users' = DOMAIN users
              /\ \A v \in DOMAIN users \ {u} : users'[v] = users[v]
              /\ users'[u].joined_at = users[u].joined_at
              /\ bucket' = bucket
              /\ broadcasts' = broadcasts
              /\ runs' = runs

C25_BannedUntilUnban == [][C25_Step]_vars

\* a recipient banned for "spam" presses a button: the callback is
\* answered, guard turns them down, and the row has their name and the ban
\* as it was
C25_Witness ==
    /\ last.cmd = "cb"
    /\ last.res = "Banned"
    /\ last.trace = <<"answer", "guard">>
    /\ last.uid \in DOMAIN users
    /\ users[last.uid].first_name = "A"
    /\ users[last.uid].is_banned = 1
    /\ users[last.uid].ban_reason = "spam"

(* ==================== the operator bans their own id =================== *)
\* the configured operator has a banned row
OperatorBanned ==
    /\ OWNER_ID # 0
    /\ OWNER_ID \in DOMAIN users
    /\ users[OWNER_ID].is_banned = 1

\* the recipients with is_banned = 1
BannedIds(tbl) == {u \in DOMAIN tbl : tbl[u].is_banned = 1}

(* C26: nothing exempts the operator from the ban check or keeps /ban from *)
(* the operator's own id, so an operator who bans their own id is locked   *)
(* out: every later interaction of the operator is turned down as Banned,  *)
(* no recipient's is_banned changes again (the operator's included) and no *)
(* broadcast record is created any more.                                   *)
C26_Step ==
    OperatorBanned =>
        /\ BannedIds(users') = BannedIds(users)
        /\ Len(broadcasts') = Len(broadcasts)
        /\ DOMAIN runs' = DOMAIN runs
        /\ (HandlerStep /\ last'.uid = OWNER_ID /\ last'.res # "none") =>
              last'.res = "Banned" /\ last'.trace[Len(last'.trace)] = "guard"

C26_LockedOut == [][C26_Step]_vars

\* the operator, banned by their own /ban 1, sends /unban 1 and is turned
\* down as Banned; the row is still banned
C26_Witness ==
    /\ OWNER_ID = 1
    /\ last.cmd = "unban"
    /\ last.uid = OWNER_ID
    /\ last.args = <<"1">>
    /\ last.res = "Banned"
    /\ users[OWNER_ID].is_banned = 1
    /\ users[OWNER_ID].ban_reason = "No reason"

(* ==================== a steady pace above the limit ==================== *)
\* the messages of u so far came one Period(u) after the other, and that
\* pace puts more than `limit` of them into one window
SteadyAbove(u) ==
    /\ Len(hits[u]) >= 2
    /\ \A k \in 2..Len(hits[u]) : hits[u][k].at - hits[u][k-1].at = Period(u)
    /\ FLOOD.limit * Period(u) < FLOOD.window * TicksPerSecond

(* C28: a throttled call is still recorded in the caller's window, so a    *)
(* user other than the operator who interacts at a steady pace of more     *)
(* than `limit` interactions per window (one a second with 8 and 7) is     *)
(* let through `limit` times and throttled on every interaction after      *)
(* that: without a pause it is never Allowed again.                        *)
C28_Step ==
    \A u \in Ids :
        /\ hits'[u] # hits[u] =>
              /\ bucket'[u] # << >>
              /\ bucket'[u][Len(bucket'[u])] = seconds(now)
              /\ Len(bucket'[u]) >=
                    1 + Cardinality({k \in 1..Len(bucket[u]) :
                            seconds(now) - bucket[u][k] <= FLOOD.window})
        /\ SteadyAbove(u)' =>
              \A k \in 1..Len(hits'[u]) :
                  hits'[u][k].over <=> k > FLOOD.limit

C28_SteadyStaysThrottled == [][C28_Step]_vars

\* window 8, limit 7, one message a second: ten messages, the first seven
\* let through, the eighth to the tenth throttled and all still recorded
C28_Witness ==
    /\ FLOOD = [window |-> 8, limit |-> 7]
    /\ Len(hits[1]) = 10
    /\ SteadyAbove(1)
    /\ Period(1) = TicksPerSecond
    /\ ~hits[1][7].over
    /\ hits[1][8].over
    /\ hits[1][9].over
    /\ hits[1][10].over
    /\ Len(bucket[1]) = 9

====
